---------------------------- MODULE Spec2Model ----------------------------
(***************************************************************************)
(* Game of Life (src/main.py): a Tkinter program whose GameOfLife object   *)
(* owns a grid of Cell objects.  Every handler (a click on the canvas, the *)
(* Start, Random, Stop and Reset buttons, the timer callback scheduled     *)
(* with root.after) runs to completion on the Tk main loop, so each one is *)
(* one action.  The section "The handlers, statement by statement" models  *)
(* start_game once more, one statement per action, under that main loop.   *)
(*                                                                         *)
(* Python lists are modelled as functions over 0 .. len-1, so that the     *)
(* source's zero-based (row, col) are kept.  Indexing follows Python: an   *)
(* index i with -len <= i < 0 denotes element len+i, any other index       *)
(* outside 0 .. len-1 raises IndexError.                                   *)
(*                                                                         *)
(* Tk timer identifiers ("after#n") are opaque tokens; they are modelled   *)
(* as the positive integers, and 0 is the integer self.game_id holds       *)
(* before the first timer is scheduled.  after_cancel of an identifier     *)
(* that is not pending does nothing (Tcl's "after cancel").                *)
(***************************************************************************)
EXTENDS Integers, Sequences, FiniteSets

VARIABLES
    grid,          \* self.grid: row -> col -> Cell
    change_cells,  \* the change_cells list of the last start_game, as <<row, col>>
    game_id,       \* self.game_id
    pending,       \* timer callbacks scheduled with root.after and not yet fired
    last,          \* the handler that ran last, its click position and outcome
    drawn,         \* the values random.choice returned in the last random_game
    active         \* the handler the main loop is executing, and where it stands

vars == <<grid, change_cells, game_id, pending, last, drawn, active>>

\* Grid size of the model (the source builds 50 x 50).
Rows == 3
Cols == 3

\* Side of a cell's rectangle in pixels, and the divisor of get_cell_position.
CellSize == 10

\* Major versions of the interpreter the source runs under (its imports
\* provide for both); they differ in the "/" of get_cell_position.
PyVersions == {2, 3}

-----------------------------------------------------------------------------
(* Python list indexing *)

len(s) == Cardinality(DOMAIN s)

\* s[i] raises IndexError
IndexError(s, i) == i < -len(s) \/ i >= len(s)

\* the position s[i] denotes when it does not raise
PyIndex(s, i) == IF i < 0 THEN i + len(s) ELSE i

-----------------------------------------------------------------------------
(* class Cell *)

\* Cell.__init__: the rectangle is created black, the cell dead.
Cell(row, col) == [row |-> row, col |-> col, alive |-> FALSE, fill |-> "black"]

\* A reset that repaints the rectangle and forgets the flag.
reset_fill_only(cell) == [cell EXCEPT !.fill = "black"]

\* Cell.reset
reset(cell) == [cell EXCEPT !.fill = "black", !.alive = FALSE]

\* A change_colour that only ever switches a cell on.
change_colour_on_only(cell) == [cell EXCEPT !.fill = "green", !.alive = TRUE]

\* Cell.change_colour
change_colour(cell) ==
    IF ~cell.alive
        THEN [cell EXCEPT !.fill = "green", !.alive = TRUE]
        ELSE reset(cell)

\* neighbour_hit without the "i == -1 or j == -1" guard: index -1 then reads
\* the last row or column.
neighbour_hit_wrapping(g, cell, i, j) ==
    IF i = cell.row /\ j = cell.col THEN 0
    ELSE IF IndexError(g, i) THEN 0
    ELSE LET line == g[PyIndex(g, i)] IN
         IF IndexError(line, j) THEN 0
         ELSE IF line[PyIndex(line, j)].alive THEN 1
         ELSE 0

\* neighbour_hit without the test that skips the cell itself.
neighbour_hit_counting_self(g, cell, i, j) ==
    IF i = -1 \/ j = -1 THEN 0
    ELSE IF IndexError(g, i) THEN 0
    ELSE LET line == g[PyIndex(g, i)] IN
         IF IndexError(line, j) THEN 0
         ELSE IF line[PyIndex(line, j)].alive THEN 1
         ELSE 0

\* The body of the two loops of alive_neighbours for one (i, j): 1 when the
\* position adds to num_alive, 0 when it is skipped or raises IndexError.
neighbour_hit(g, cell, i, j) ==
    IF i = cell.row /\ j = cell.col THEN 0
    ELSE IF i = -1 \/ j = -1 THEN 0
    ELSE IF IndexError(g, i) THEN 0
    ELSE LET line == g[PyIndex(g, i)] IN
         IF IndexError(line, j) THEN 0
         ELSE IF line[PyIndex(line, j)].alive THEN 1
         ELSE 0

\* the inner loop: j in (col-1, col, col+1)
neighbour_row(g, cell, i) ==
      neighbour_hit(g, cell, i, cell.col - 1)
    + neighbour_hit(g, cell, i, cell.col)
    + neighbour_hit(g, cell, i, cell.col + 1)

\* alive_neighbours with "or" for "and" in the test that skips the cell
\* itself: the whole row and column of the cell are skipped.
alive_neighbours_diagonal(g, cell) ==
      neighbour_hit(g, cell, cell.row - 1, cell.col - 1)
    + neighbour_hit(g, cell, cell.row - 1, cell.col + 1)
    + neighbour_hit(g, cell, cell.row + 1, cell.col - 1)
    + neighbour_hit(g, cell, cell.row + 1, cell.col + 1)

\* Cell.alive_neighbours: i in (row-1, row, row+1)
alive_neighbours(g, cell) ==
      neighbour_row(g, cell, cell.row - 1)
    + neighbour_row(g, cell, cell.row)
    + neighbour_row(g, cell, cell.row + 1)

\* cell_fate with a birth at three or more neighbours.
cell_fate_birth_ge3(g, cell) ==
    LET n == alive_neighbours(g, cell) IN
    IF cell.alive
        THEN n < 2 \/ n > 3
        ELSE n >= 3

\* cell_fate with a death at three or more neighbours.
cell_fate_death_ge3(g, cell) ==
    LET n == alive_neighbours(g, cell) IN
    IF cell.alive
        THEN n < 2 \/ n >= 3
        ELSE n = 3

\* cell_fate with the two branches exchanged.
cell_fate_swapped(g, cell) ==
    LET n == alive_neighbours(g, cell) IN
    IF ~cell.alive
        THEN n < 2 \/ n > 3
        ELSE n = 3

\* cell_fate with underpopulation below one neighbour instead of two.
cell_fate_under_lt1(g, cell) ==
    LET n == alive_neighbours(g, cell) IN
    IF cell.alive
        THEN n < 1 \/ n > 3
        ELSE n = 3

\* Cell.cell_fate: TRUE when the cell is to be flipped.
cell_fate(g, cell) ==
    LET n == alive_neighbours(g, cell) IN
    IF cell.alive
        THEN n < 2 \/ n > 3
        ELSE n = 3

-----------------------------------------------------------------------------
(* class GameOfLife *)

\* GameOfLife.create_grid
create_grid == [row \in 0 .. Rows - 1 |-> [col \in 0 .. Cols - 1 |-> Cell(row, col)]]

\* int((v/10)-1): "/" is floor division of integers in Python 2 and true
\* division in Python 3, where int() then truncates towards zero.
pixel_to_index(v, version) ==
    IF version = 2 THEN (v \div CellSize) - 1
    ELSE IF v >= CellSize THEN (v - CellSize) \div CellSize
    ELSE -((CellSize - v) \div CellSize)

\* GameOfLife.get_cell_position: <<row, col>>
get_cell_position(x, y, version) ==
    <<pixel_to_index(y, version), pixel_to_index(x, version)>>

\* toggle_cell: self.grid[row][col] raises IndexError
toggle_raises(g, row, col) ==
    IndexError(g, row) \/ IndexError(g[PyIndex(g, row)], col)

\* toggle_cell: the grid after cell.change_colour() on self.grid[row][col]
toggle_grid(g, row, col) ==
    IF toggle_raises(g, row, col) THEN g
    ELSE [g EXCEPT ![PyIndex(g, row)][PyIndex(g[PyIndex(g, row)], col)] =
                        change_colour(@)]

\* start_game, first loops: the cells with cell_fate(), in row-major order.
RECURSIVE scan_row(_, _, _)
scan_row(g, row, col) ==
    IF col >= len(g[row]) THEN <<>>
    ELSE (IF cell_fate(g, g[row][col]) THEN <<(<<row, col>>)>> ELSE <<>>)
         \o scan_row(g, row, col + 1)

RECURSIVE scan_grid(_, _)
scan_grid(g, row) ==
    IF row >= len(g) THEN <<>>
    ELSE scan_row(g, row, 0) \o scan_grid(g, row + 1)

collect_changes(g) == scan_grid(g, 0)

\* start_game, second loop: change_colour() on every cell of change_cells.
RECURSIVE apply_changes(_, _)
apply_changes(g, cells) ==
    IF cells = <<>> THEN g
    ELSE apply_changes(
            [g EXCEPT ![Head(cells)[1]][Head(cells)[2]] = change_colour(@)],
            Tail(cells))

\* A start_game that flips each cell as soon as its fate is known, so that
\* later cells count neighbours that were already updated.
RECURSIVE inplace_from(_, _)
inplace_from(g, k) ==
    IF k >= len(g) * len(g[0]) THEN g
    ELSE inplace_from(
            IF cell_fate(g, g[k \div len(g[0])][k % len(g[0])])
                THEN [g EXCEPT ![k \div len(g[0])][k % len(g[0])] = change_colour(@)]
                ELSE g,
            k + 1)

start_game_inplace(g) ==
    [change_cells |-> collect_changes(g), grid |-> inplace_from(g, 0)]

\* start_game: the change_cells list of the first loops and the grid after
\* the second.
start_game_loops(g) ==
    LET cells == collect_changes(g) IN
    [change_cells |-> cells, grid |-> apply_changes(g, cells)]

\* A reset_game that stops one row short.
reset_game_short(g) ==
    [row \in DOMAIN g |->
        [col \in DOMAIN g[row] |->
            IF row < len(g) - 1 THEN reset(g[row][col]) ELSE g[row][col]]]

\* A reset_game that calls create_grid again: a new set of rows of dead
\* cells is appended to self.grid.
reset_game_recreate(g) ==
    [row \in 0 .. 2 * len(g) - 1 |->
        IF row < len(g) THEN g[row]
        ELSE [col \in DOMAIN g[0] |-> Cell(row - len(g), col)]]

\* GameOfLife.reset_game
reset_game(g) == [row \in DOMAIN g |-> [col \in DOMAIN g[row] |-> reset(g[row][col])]]

\* A random_game that only ever switches cells on: a cell that was alive
\* stays alive whatever random.choice returns.
random_assign_on_only(g, a) ==
    [row \in DOMAIN g |-> [col \in DOMAIN g[row] |->
        [g[row][col] EXCEPT !.alive = @ \/ a[row][col]]]]

\* random_game: the grid after the loops, a[row][col] being the value
\* random.choice returned for the cell.  Only .alive is assigned.
random_assign(g, a) ==
    [row \in DOMAIN g |-> [col \in DOMAIN g[row] |->
        [g[row][col] EXCEPT !.alive = a[row][col]]]]

\* An after_cancel that cancels nothing.
after_cancel_nothing(p, id) == p

\* root.after_cancel(id)
after_cancel(p, id) == p \ {id}

\* the identifier root.after returns: one that names no other timer
fresh_id(p, id) == CHOOSE n \in 1 .. Cardinality(p) + 2 : n \notin p /\ n # id

-----------------------------------------------------------------------------
(* The handlers *)

Handled(op) == [op |-> op, row |-> 0, col |-> 0, err |-> FALSE]

\* No handler is executing: the main loop waits for the next event.
NoHandler == [pc |-> "idle", op |-> "none", k |-> 0, from |-> <<>>]

\* The state GameOfLife.__init__ leaves.
Init ==
    /\ grid = create_grid
    /\ change_cells = <<>>
    /\ game_id = 0
    /\ pending = {}
    /\ last = Handled("init")
    /\ drawn = <<>>
    /\ active = NoHandler

\* Click positions: the canvas edge, and the middle of every 10-pixel band
\* of the canvas, the margins left and right of the cells included.
XPixels == {0} \cup {CellSize * k + CellSize \div 2 : k \in 0 .. Cols + 1}
YPixels == {0} \cup {CellSize * k + CellSize \div 2 : k \in 0 .. Rows + 1}

\* toggle_cell(event), bound to <Button-1> on the canvas.
ToggleCell(x, y, version) ==
    LET pos == get_cell_position(x, y, version) IN
    /\ grid' = toggle_grid(grid, pos[1], pos[2])
    /\ last' = [op |-> "toggle", row |-> pos[1], col |-> pos[2],
                err |-> toggle_raises(grid, pos[1], pos[2])]
    /\ UNCHANGED <<change_cells, game_id, pending, drawn, active>>

Click == \E x \in XPixels, y \in YPixels, version \in PyVersions :
            ToggleCell(x, y, version)

\* A start_game without the root.after call: one generation and no more.
start_game_no_after(g, p, op) ==
    /\ LET loops == start_game_loops(g) IN
          /\ grid' = loops.grid
          /\ change_cells' = loops.change_cells
    /\ game_id' = game_id
    /\ pending' = after_cancel(p, game_id)
    /\ last' = Handled(op)
    /\ UNCHANGED active

\* A start_game that schedules the next generation only when this one
\* flipped a cell.
start_game_until_still(g, p, op) ==
    /\ LET loops == start_game_loops(g) IN
          /\ grid' = loops.grid
          /\ change_cells' = loops.change_cells
    /\ game_id' = IF change_cells' = <<>> THEN game_id
                  ELSE fresh_id(after_cancel(p, game_id), game_id)
    /\ pending' = IF change_cells' = <<>> THEN after_cancel(p, game_id)
                  ELSE after_cancel(p, game_id) \cup {game_id'}
    /\ last' = Handled(op)
    /\ UNCHANGED active

\* A start_game that does not keep the identifier root.after returns.
start_game_lost_id(g, p, op) ==
    /\ LET loops == start_game_loops(g) IN
          /\ grid' = loops.grid
          /\ change_cells' = loops.change_cells
    /\ game_id' = game_id
    /\ pending' = after_cancel(p, game_id)
                      \cup {fresh_id(after_cancel(p, game_id), game_id)}
    /\ last' = Handled(op)
    /\ UNCHANGED active

\* start_game() on grid g with the timers p pending: stop_game(), the two
\* loops, then root.after(100, self.start_game).
start_game(g, p, op) ==
    /\ LET loops == start_game_loops(g) IN
          /\ grid' = loops.grid
          /\ change_cells' = loops.change_cells
    /\ game_id' = fresh_id(after_cancel(p, game_id), game_id)
    /\ pending' = after_cancel(p, game_id) \cup {game_id'}
    /\ last' = Handled(op)
    /\ UNCHANGED active

\* The Start button.
StartGame == start_game(grid, pending, "start") /\ UNCHANGED drawn

\* A scheduled callback fires: Tk forgets the timer and calls start_game.
TimerFire ==
    /\ \E id \in pending : start_game(grid, pending \ {id}, "timer")
    /\ UNCHANGED drawn

\* The Random button: random_game().
RandomGame ==
    \E a \in [DOMAIN grid -> [DOMAIN grid[0] -> BOOLEAN]] :
        /\ start_game(random_assign(grid, a), after_cancel(pending, game_id), "random")
        /\ drawn' = a

\* The Stop button: stop_game().
StopGame ==
    /\ pending' = after_cancel(pending, game_id)
    /\ last' = Handled("stop")
    /\ UNCHANGED <<grid, change_cells, game_id, drawn, active>>

\* The Reset button: reset_game().
ResetGame ==
    /\ grid' = reset_game(grid)
    /\ last' = Handled("reset")
    /\ UNCHANGED <<change_cells, game_id, pending, drawn, active>>

Next == Click \/ StartGame \/ TimerFire \/ RandomGame \/ StopGame \/ ResetGame

\* The program from its construction, under every sequence of events.
Spec == Init /\ [][Next]_vars

\* The grids clicks produce from the constructed grid: any cells alive, each
\* rectangle green exactly when its cell is alive.
ClickedGrids ==
    { [row \in 0 .. Rows - 1 |-> [col \in 0 .. Cols - 1 |->
          IF a[row][col] THEN change_colour(Cell(row, col)) ELSE Cell(row, col)]] :
      a \in [0 .. Rows - 1 -> [0 .. Cols - 1 -> BOOLEAN]] }

InitClicked ==
    /\ grid \in ClickedGrids
    /\ change_cells = <<>>
    /\ game_id = 0
    /\ pending = {}
    /\ last = Handled("init")
    /\ drawn = <<>>
    /\ active = NoHandler

\* One run of the game from every grid: Start is pressed on the program
\* that has not run yet, the timer drives the generations, Stop is pressed
\* while the timer is pending and Reset once the game is stopped.
NextStep ==
    \/ game_id = 0 /\ StartGame
    \/ TimerFire
    \/ pending # {} /\ StopGame
    \/ game_id # 0 /\ pending = {} /\ ResetGame

SpecStep == InitClicked /\ [][NextStep]_vars

\* The same run on a main loop that is not stopped: a callback scheduled
\* with root.after is called once its 100 ms have passed, unless it is
\* cancelled before.
SpecStepFair == SpecStep /\ WF_vars(TimerFire)

\* One editing operation on every grid: a click or Reset.
NextEdit == last.op = "init" /\ (Click \/ ResetGame)

SpecEdit == InitClicked /\ [][NextEdit]_vars

\* game_id and the pending timers of a program that has not run yet, of one
\* that was stopped and of one that is running.
TimerStates == {<<0, {}>>, <<1, {}>>, <<1, {1}>>}

InitUI ==
    /\ grid \in ClickedGrids
    /\ change_cells = <<>>
    /\ \E timers \in TimerStates :
          /\ game_id = timers[1]
          /\ pending = timers[2]
    /\ last = Handled("init")
    /\ drawn = <<>>
    /\ active = NoHandler

\* The events on every grid, whether the game has not run yet, is stopped
\* or is running: one event, and after a Stop one more.  Random is pressed
\* as the first event, on an empty board, and Stop also after a generation.
NextUI ==
    \/ last.op \in {"init", "stop"} /\ Click
    \/ last.op \in {"init", "stop"} /\ StartGame
    \/ last.op \in {"init", "stop"} /\ TimerFire
    \/ last.op = "init" /\ grid = create_grid /\ RandomGame
    \/ last.op \in {"init", "stop", "start", "timer", "random"} /\ StopGame
    \/ last.op \in {"init", "stop"} /\ ResetGame

SpecUI == InitUI /\ [][NextUI]_vars

\* Random pressed once: on a running game with any grid, and on a game that
\* has not run yet or is stopped with the empty board.
InitRandom == InitUI /\ (pending = {} => grid = create_grid)

NextRandom == last.op = "init" /\ RandomGame

SpecRandom == InitRandom /\ [][NextRandom]_vars

-----------------------------------------------------------------------------
(* The handlers, statement by statement *)

\* A main loop that takes the next event while a handler is still running
\* (as it would if the handler called update()).
mainloop_reentrant(Call) == Call

\* root.mainloop(): the next event is taken, and its handler called, once
\* the handler of the previous event has returned.
mainloop(Call) == active = NoHandler /\ Call

\* start_game is entered with the timers p pending: stop_game() and
\* change_cells = [].  active.from keeps the grid the call found.
enter_start_game(g, p, op) ==
    /\ grid' = g
    /\ pending' = after_cancel(p, game_id)
    /\ change_cells' = <<>>
    /\ active' = [pc |-> "scan", op |-> op, k |-> 0, from |-> g]
    /\ UNCHANGED <<game_id, last>>

\* The Start button is pressed.
StartCall == enter_start_game(grid, pending, "start") /\ UNCHANGED drawn

\* A scheduled callback is due: Tk forgets the timer and calls start_game.
TimerCall ==
    /\ \E id \in pending : enter_start_game(grid, pending \ {id}, "timer")
    /\ UNCHANGED drawn

\* The Random button is pressed: random_game() up to its call of start_game,
\* and the entry into that call.
RandomCall ==
    \E a \in [DOMAIN grid -> [DOMAIN grid[0] -> BOOLEAN]] :
        /\ enter_start_game(random_assign(grid, a), after_cancel(pending, game_id), "random")
        /\ drawn' = a

\* start_game, first loops: one cell.cell_fate() and the append it guards.
ScanCell ==
    /\ active.pc = "scan"
    /\ LET row == active.k \div len(grid[0])
           col == active.k % len(grid[0])
       IN  change_cells' = IF cell_fate(grid, grid[row][col])
                               THEN Append(change_cells, <<row, col>>)
                               ELSE change_cells
    /\ active' = IF active.k + 1 < len(grid) * len(grid[0])
                     THEN [active EXCEPT !.k = @ + 1]
                     ELSE [active EXCEPT !.pc = "flip", !.k = 1]
    /\ UNCHANGED <<grid, game_id, pending, last, drawn>>

\* start_game, second loop: one cell.change_colour().
FlipCell ==
    /\ active.pc = "flip"
    /\ active.k <= Len(change_cells)
    /\ grid' = [grid EXCEPT ![change_cells[active.k][1]][change_cells[active.k][2]] =
                                change_colour(@)]
    /\ active' = [active EXCEPT !.k = @ + 1]
    /\ UNCHANGED <<change_cells, game_id, pending, last, drawn>>

\* start_game, after the loops: root.after(100, self.start_game), and the
\* handler returns.
ScheduleNext ==
    /\ active.pc = "flip"
    /\ active.k > Len(change_cells)
    /\ game_id' = fresh_id(pending, game_id)
    /\ pending' = pending \cup {game_id'}
    /\ last' = Handled(active.op)
    /\ active' = NoHandler
    /\ UNCHANGED <<grid, change_cells, drawn>>

\* The program from its construction on the main loop: Random is pressed
\* first, the timer drives the generations, Stop is pressed after a
\* generation, and a click, Reset or Start follows a Stop.
NextLoop ==
    \/ mainloop(last.op = "init" /\ RandomCall)
    \/ mainloop(TimerCall)
    \/ ScanCell
    \/ FlipCell
    \/ ScheduleNext
    \/ mainloop(last.op \in {"random", "start", "timer"} /\ StopGame)
    \/ mainloop(last.op = "stop" /\ StartCall)
    \/ mainloop(last.op = "stop" /\ Click)
    \/ mainloop(last.op = "stop" /\ ResetGame)

SpecLoop == Init /\ [][NextLoop]_vars

-----------------------------------------------------------------------------
(* Vocabulary of the properties, defined without the program's operators *)

Positions == (0 .. Rows - 1) \X (0 .. Cols - 1)

InGrid(row, col) == row \in 0 .. Rows - 1 /\ col \in 0 .. Cols - 1

AliveSet(g) == {pos \in Positions : g[pos[1]][pos[2]].alive}

AllDead(g) == AliveSet(g) = {}

Offsets == ({-1, 0, 1} \X {-1, 0, 1}) \ {<<0, 0>>}

\* the alive cells among the up to eight positions around (row, col)
NeighbourCount(g, row, col) ==
    Cardinality({d \in Offsets :
        /\ InGrid(row + d[1], col + d[2])
        /\ g[row + d[1]][col + d[2]].alive})

\* Conway's rule for the cell at (row, col)
LifeRule(g, row, col) ==
    \/ g[row][col].alive /\ NeighbourCount(g, row, col) \in {2, 3}
    \/ ~g[row][col].alive /\ NeighbourCount(g, row, col) = 3

Elements(seq) == {seq[k] : k \in DOMAIN seq}

Adjacent(p, q) ==
    /\ p # q
    /\ p[1] - q[1] \in {-1, 0, 1}
    /\ p[2] - q[2] \in {-1, 0, 1}

\* the four cells of the 2x2 block whose top left cell is (row, col)
Block(row, col) ==
    {<<row, col>>, <<row, col + 1>>, <<row + 1, col>>, <<row + 1, col + 1>>}

BlockCorners == (0 .. Rows - 2) \X (0 .. Cols - 2)

IsBlock(g) == \E p \in BlockCorners : AliveSet(g) = Block(p[1], p[2])

LTromino == {<<1, 1>>, <<1, 2>>, <<2, 1>>}

\* the last handler was a generation step (the Start button or the timer)
StepOps == {"start", "timer"}

-----------------------------------------------------------------------------
(* C1 .. C10 *)

\* The grid a step computes with two buffers: every cell from g alone.
TwoBuffer(g) ==
    [row \in 0 .. Rows - 1 |-> [col \in 0 .. Cols - 1 |->
        IF cell_fate(g, g[row][col]) THEN change_colour(g[row][col])
                                     ELSE g[row][col]]]

\* C1: a generation step yields the grid in which every cell's new state is
\* computed from the cell states before the step: the result of start_game
\* equals the two-buffer synchronous update of the grid it started from.
C1_StepIsSynchronous ==
    [][last'.op \in StepOps => grid' = TwoBuffer(grid)]_vars

\* A step has flipped two cells that are neighbours of each other (the case
\* in which an in-place update would read an already updated neighbour).
C1_Witness ==
    /\ last.op \in StepOps
    /\ \E p \in Elements(change_cells), q \in Elements(change_cells) : Adjacent(p, q)

\* C2: after a generation step a cell is alive iff it was alive with 2 or 3
\* alive neighbours or dead with exactly 3, and cell_fate is true exactly
\* for the cells whose state this rule flips.
C2_LifeRule ==
    [][last'.op \in StepOps =>
        \A pos \in Positions :
            /\ grid'[pos[1]][pos[2]].alive <=> LifeRule(grid, pos[1], pos[2])
            /\ cell_fate(grid, grid[pos[1]][pos[2]]) <=>
                  (grid[pos[1]][pos[2]].alive # LifeRule(grid, pos[1], pos[2]))]_vars

\* A step in which one cell was born and another died.
C2_Witness ==
    /\ last.op \in StepOps
    /\ \E p \in Elements(change_cells) : grid[p[1]][p[2]].alive
    /\ \E p \in Elements(change_cells) : ~grid[p[1]][p[2]].alive

\* C3: for every cell, corner and edge cells included, alive_neighbours is
\* the number of alive cells among the surrounding positions that lie
\* inside the grid; positions outside count nothing and never wrap.
C3_NeighbourCount ==
    \A pos \in Positions :
        alive_neighbours(grid, grid[pos[1]][pos[2]]) =
            NeighbourCount(grid, pos[1], pos[2])

\* After a step, a cell of the first row counts no alive neighbour while
\* the cell of its column in the last row is alive (a wrapped read of index
\* -1 would count it).
C3_Witness ==
    /\ last.op \in StepOps
    /\ \E col \in 0 .. Cols - 1 :
        /\ grid[Rows - 1][col].alive
        /\ alive_neighbours(grid, grid[0][col]) = 0

\* C4: a toggle whose row or column falls outside the grid, a negative one
\* included, ends in an error and leaves every cell unchanged.
C4_OutOfRangeToggleRejected ==
    [][(last'.op = "toggle" /\ ~InGrid(last'.row, last'.col)) =>
            (last'.err /\ grid' = grid)]_vars

\* C5: the change_cells list of a step is exactly the set of positions whose
\* alive state differs between the grid before and the grid after the step,
\* and lists no cell twice.
C5_ChangedSet ==
    [][last'.op \in StepOps =>
        /\ Cardinality(Elements(change_cells')) = Len(change_cells')
        /\ Elements(change_cells') =
              {pos \in Positions :
                  grid[pos[1]][pos[2]].alive # grid'[pos[1]][pos[2]].alive}]_vars

\* A step that listed a cell which was alive and is now dead.
C5_Witness ==
    /\ last.op \in StepOps
    /\ Len(change_cells) >= 2
    /\ \E p \in Elements(change_cells) : ~grid[p[1]][p[2]].alive

\* C6: a toggle at an in-range (row, col) inverts the alive state of exactly
\* that cell and leaves every other cell unchanged, and a second toggle of
\* the same cell restores the grid the first one started from.
C6_ToggleInRange ==
    [][(last'.op = "toggle" /\ InGrid(last'.row, last'.col)) =>
        /\ ~last'.err
        /\ \A pos \in Positions :
              grid'[pos[1]][pos[2]].alive =
                  (IF pos = <<last'.row, last'.col>>
                      THEN ~grid[pos[1]][pos[2]].alive
                      ELSE grid[pos[1]][pos[2]].alive)
        /\ toggle_grid(grid', last'.row, last'.col) = grid]_vars

\* An in-range toggle has switched off a cell while others stay alive.
C6_Witness ==
    /\ last.op = "toggle"
    /\ InGrid(last.row, last.col)
    /\ ~grid[last.row][last.col].alive
    /\ ~AllDead(grid)

\* C7: after reset_game every cell is dead, and a second reset_game yields
\* the same all-dead grid.
C7_ResetAllDead ==
    [][last'.op = "reset" =>
        /\ AllDead(grid')
        /\ reset_game(grid') = grid'
        /\ AllDead(reset_game(grid'))]_vars

\* Reset has run and the grid is all dead.
C7_Witness ==
    /\ last.op = "reset"
    /\ AllDead(grid)
    /\ \A pos \in Positions : grid[pos[1]][pos[2]].fill = "black"

\* C8: a generation step on an all-dead grid flips no cell and leaves the
\* grid all dead; an all-dead grid stays all dead under every handler other
\* than a toggle or a randomize.
C8_AllDeadStays ==
    [][AllDead(grid) =>
        /\ last'.op \in StepOps => (change_cells' = <<>> /\ AllDead(grid'))
        /\ last'.op \notin {"toggle", "random"} => AllDead(grid')]_vars

\* The timer has fired a step that left an all-dead grid without a flip.
C8_Witness ==
    /\ last.op = "timer"
    /\ change_cells = <<>>
    /\ AllDead(grid)

\* C9: a grid whose only alive cells form a 2x2 block, anywhere in the grid,
\* is a fixed point of the step: each block cell has exactly 3 alive
\* neighbours, the step flips no cell and the grid is unchanged.
C9_BlockIsStill ==
    [][(IsBlock(grid) /\ last'.op \in StepOps) =>
        /\ \A pos \in AliveSet(grid) :
              alive_neighbours(grid, grid[pos[1]][pos[2]]) = 3
        /\ change_cells' = <<>>
        /\ grid' = grid]_vars

\* A step has run on a block in the last rows and columns of the grid.
C9_Witness ==
    /\ last.op \in StepOps
    /\ change_cells = <<>>
    /\ AliveSet(grid) = Block(Rows - 2, Cols - 2)

\* C10: from the grid whose only alive cells are (1,1), (1,2) and (2,1), a
\* step makes (2,2) alive, which has exactly 3 alive neighbours, and flips
\* no other cell: the changed set is {(2,2)} and the result is the 2x2
\* block, which a further step leaves unchanged.
C10_LTrominoToBlock ==
    [][last'.op \in StepOps =>
        /\ AliveSet(grid) = LTromino =>
              /\ alive_neighbours(grid, grid[2][2]) = 3
              /\ change_cells' = <<(<<2, 2>>)>>
              /\ AliveSet(grid') = Block(1, 1)
        /\ AliveSet(grid) = Block(1, 1) =>
              (change_cells' = <<>> /\ grid' = grid)]_vars

\* A step has flipped (2,2) alone and left the block at (1,1).
C10_Witness ==
    /\ last.op \in StepOps
    /\ change_cells = <<(<<2, 2>>)>>
    /\ AliveSet(grid) = Block(1, 1)

-----------------------------------------------------------------------------
(* C11 .. C20 *)

\* C11: every cell that is alive with zero or one alive neighbour before a
\* generation step is dead after it; a grid with a single alive cell is all
\* dead after one step, and the change_cells list of that step is exactly
\* that cell.
C11_UnderpopulationDies ==
    [][last'.op \in StepOps =>
        /\ \A pos \in AliveSet(grid) :
              NeighbourCount(grid, pos[1], pos[2]) <= 1 =>
                  ~grid'[pos[1]][pos[2]].alive
        /\ Cardinality(AliveSet(grid)) = 1 =>
              /\ AllDead(grid')
              /\ Len(change_cells') = 1
              /\ Elements(change_cells') = AliveSet(grid)]_vars

\* A step has killed the only alive cell of its grid, a cell of the last row.
C11_Witness ==
    /\ last.op \in StepOps
    /\ AllDead(grid)
    /\ Len(change_cells) = 1
    /\ change_cells[1][1] = Rows - 1

\* C12: stop_game leaves no generation step scheduled and the grid as it
\* is, and while none is scheduled no generation step is applied until
\* Start or Random is pressed: every other event is a toggle, a reset or a
\* stop, schedules nothing and computes no change_cells, and only a toggle
\* or a reset changes the grid.
C12_StopHaltsGenerations ==
    [][/\ last'.op = "stop" => (pending' = {} /\ grid' = grid)
       /\ (pending = {} /\ last'.op \notin {"start", "random"}) =>
              /\ last'.op \in {"toggle", "reset", "stop"}
              /\ pending' = {}
              /\ change_cells' = change_cells
              /\ grid' # grid => last'.op \in {"toggle", "reset"}]_vars

\* Stop has been pressed after a generation that flipped cells and
\* scheduled its successor; nothing is scheduled any more.
C12_Witness ==
    /\ last.op = "stop"
    /\ game_id = 2
    /\ change_cells # <<>>
    /\ pending = {}

\* g has Rows rows of Cols cells, and the cell at (row, col) is the one
\* created for that position and holds one boolean alive state.
GridShape(g) ==
    /\ DOMAIN g = 0 .. Rows - 1
    /\ \A row \in 0 .. Rows - 1 :
          /\ DOMAIN g[row] = 0 .. Cols - 1
          /\ \A col \in 0 .. Cols - 1 :
                /\ g[row][col].alive \in BOOLEAN
                /\ g[row][col].row = row
                /\ g[row][col].col = col

\* C13: create_grid builds a Rows x Cols grid of dead cells, and in every
\* reachable state, whatever events came before, the grid has these
\* dimensions and every in-range (row, col) holds exactly one boolean alive
\* state.
C13_GridShape ==
    /\ GridShape(create_grid)
    /\ AllDead(create_grid)
    /\ GridShape(grid)

\* Random has run on the created grid: the grid has its dimensions, and
\* cells of its last row and column are alive.
C13_Witness ==
    /\ last.op = "random"
    /\ GridShape(grid)
    /\ grid[Rows - 1][Cols - 1].alive
    /\ game_id = 1

Corners == {0, Rows - 1} \X {0, Cols - 1}

Edges == {pos \in Positions : pos[1] \in {0, Rows - 1} \/ pos[2] \in {0, Cols - 1}}

\* C15: in every grid state the alive-neighbour count of every cell is
\* between 0 and 8, at most 3 for a corner cell and at most 5 for a cell of
\* an edge that is not a corner.
C15_NeighbourCountBounds ==
    \A pos \in Positions :
        LET n == alive_neighbours(grid, grid[pos[1]][pos[2]]) IN
        /\ n \in 0 .. 8
        /\ pos \in Corners => n <= 3
        /\ pos \in Edges \ Corners => n <= 5

\* A click has made the last cell alive: every corner cell counts 3, every
\* other edge cell 5 and an inner cell 8.
C15_Witness ==
    /\ last.op = "toggle"
    /\ AliveSet(grid) = Positions
    /\ \A pos \in Corners : alive_neighbours(grid, grid[pos[1]][pos[2]]) = 3
    /\ \A pos \in Edges \ Corners : alive_neighbours(grid, grid[pos[1]][pos[2]]) = 5
    /\ \E pos \in Positions \ Edges : alive_neighbours(grid, grid[pos[1]][pos[2]]) = 8

\* C16: a generation step is atomic.  From the moment start_game begins to
\* compute cell fates to the moment it returns, no other handler runs (the
\* last handler, the timers and game_id stay as they are), the grid is not
\* written while the fates are computed and is written only by the step's
\* own flips afterwards, one listed cell at a time, so that the step ends
\* with the synchronous update of the grid it began with; and no
\* generation step begins while one is in progress.
C16_StepIsAtomic ==
    [][/\ active.pc # "idle" =>
            /\ active'.pc # "idle" =>
                  /\ last' = last
                  /\ active'.op = active.op
                  /\ active'.from = active.from
                  /\ pending' = pending
                  /\ game_id' = game_id
            /\ active.pc = "scan" => (grid' = grid /\ active'.pc # "idle")
            /\ (active.pc = "flip" /\ active'.pc = "flip") =>
                  /\ change_cells' = change_cells
                  /\ active'.k = active.k + 1
                  /\ \A pos \in Positions :
                        IF pos = change_cells[active.k]
                            THEN grid'[pos[1]][pos[2]].alive = ~grid[pos[1]][pos[2]].alive
                            ELSE grid'[pos[1]][pos[2]] = grid[pos[1]][pos[2]]
            /\ active'.pc = "idle" =>
                  /\ last' = Handled(active.op)
                  /\ change_cells' = change_cells
                  /\ grid' = grid
                  /\ grid = TwoBuffer(active.from)
                  /\ Elements(change_cells) =
                        {pos \in Positions :
                            active.from[pos[1]][pos[2]].alive # grid[pos[1]][pos[2]].alive}
       /\ (active'.pc = "scan" /\ active'.k = 0) => active.pc = "idle"]_vars

\* A step the timer started has applied the first of several flips and not
\* yet the others.
C16_Witness ==
    /\ active.pc = "flip"
    /\ active.op = "timer"
    /\ active.k = 2
    /\ Len(change_cells) >= 3
    /\ grid # active.from

\* identifiers the model gives to timers
TimerIds == 1 .. 3

\* C17: every generation step leaves a timer pending for the next one, and
\* while the game is running a further generation step eventually occurs,
\* provided the main loop calls a callback that stays scheduled: from a
\* state with a timer pending, either Stop is pressed or the timer runs a
\* step that schedules its successor.
C17_RunningKeepsStepping ==
    /\ [](last.op \in StepOps => pending = {game_id})
    /\ \A id \in TimerIds :
          (pending = {id}) ~>
              (last.op = "stop" \/ (last.op = "timer" /\ pending = {game_id} /\ game_id # id))

\* The timer has run a step on a grid that is still and not empty, and the
\* next step is scheduled.
C17_Witness ==
    /\ last.op = "timer"
    /\ change_cells = <<>>
    /\ ~AllDead(grid)
    /\ pending = {game_id}

\* the alive states random.choice drew, as a grid of cells without colour
DrawnGrid(a) ==
    [row \in 0 .. Rows - 1 |-> [col \in 0 .. Cols - 1 |-> [alive |-> a[row][col]]]]

\* C18: random_game gives every cell the value drawn for it, whatever the
\* cell held before, then applies one generation step to the grid drawn and
\* leaves the game running: the alive states after it are Conway's rule
\* applied to the drawn values alone, change_cells lists the cells whose
\* state differs from the value drawn, and exactly one timer, a new one
\* named by game_id, is pending, whether or not one was pending before.
C18_RandomOverwrites ==
    [][last'.op = "random" =>
        /\ drawn' \in [0 .. Rows - 1 -> [0 .. Cols - 1 -> BOOLEAN]]
        /\ \A pos \in Positions :
              grid'[pos[1]][pos[2]].alive <=> LifeRule(DrawnGrid(drawn'), pos[1], pos[2])
        /\ Elements(change_cells') =
              {pos \in Positions : drawn'[pos[1]][pos[2]] # grid'[pos[1]][pos[2]].alive}
        /\ game_id' \notin pending \cup {game_id, 0}
        /\ pending' = {game_id'}]_vars

\* Random has overwritten cells both ways and the step has kept them: a
\* cell that was dead (its rectangle is still black) is alive, and a cell
\* that was alive (its rectangle is still green) is dead.
C18_Witness ==
    /\ last.op = "random"
    /\ pending = {game_id}
    /\ \E pos \in Positions :
          grid[pos[1]][pos[2]].alive /\ grid[pos[1]][pos[2]].fill = "black"
    /\ \E pos \in Positions :
          ~grid[pos[1]][pos[2]].alive /\ grid[pos[1]][pos[2]].fill = "green"

\* C19: in every reachable state at most one generation-step callback is
\* pending, and it is the one game_id names (the one the next start_game,
\* random_game or stop_game cancels).
C19_OneTimerPending ==
    /\ Cardinality(pending) <= 1
    /\ pending \subseteq {game_id}

\* Start or Random has been pressed on a game that had scheduled a timer
\* before: the new timer is the only one pending.
C19_Witness ==
    /\ last.op \in {"start", "random"}
    /\ game_id = 2
    /\ pending = {2}

\* C20: in every reachable state the rectangle of every cell is green if
\* and only if the cell is alive, and black if and only if it is dead.
C20_ColourAgreesWithAlive ==
    \A pos \in Positions :
        /\ grid[pos[1]][pos[2]].fill = "green" <=> grid[pos[1]][pos[2]].alive
        /\ grid[pos[1]][pos[2]].fill = "black" <=> ~grid[pos[1]][pos[2]].alive

=============================================================================
